---- MODULE Spec2Model ----
(***************************************************************************)
(* Model of airobot's SingleArmPybullet (arm/single_arm_pybullet.py) and   *)
(* of the simulator stepping of utils/pb_util.py.                          *)
(*                                                                         *)
(* The caller's thread runs one arm operation at a time (pc).  Operations  *)
(* that make several simulator calls in a loop, or that block in           *)
(* wait_to_reach_jnt_goal, take one step per loop iteration, so that the   *)
(* background stepping thread of pb_util (or the engine's own realtime     *)
(* simulation under a GUI) interleaves with them as it does in the         *)
(* program.  The physics engine is outside the repository: one simulation  *)
(* step may change the joint positions and velocities to any value of the  *)
(* bounded domain.                                                         *)
(***************************************************************************)
EXTENDS Integers, Sequences, FiniteSets, TLC

\* ------------------------------------------------------------------ bounds
\* joint positions, velocities and torques range over 0..MaxVal
MaxVal == 1
\* whole-arm goals have 0..MaxLen elements (arm_dof - 1 .. arm_dof + 1 included)
MaxLen == 3
\* number of unsuccessful polls after which the wait gives up
Timeout == 2
\* largest displacement of move_ee_xyz along one axis
MaxDelta == 2
\* largest interpolation step of move_ee_xyz
MaxStep == 2

Vals == 0..MaxVal

\* ---------------------------------------------------------- configuration
None == "None"

\* cfgs.ARM.JOINT_NAMES
arm_jnt_names == <<"j1", "j2">>
arm_jnt_names_set == {arm_jnt_names[i] : i \in 1..Len(arm_jnt_names)}
arm_dof == Len(arm_jnt_names)
\* keys of jnt_to_id: every joint of the URDF, the gripper's joint included
jnt_to_id == arm_jnt_names_set \cup {"grip"}
\* joint identifiers a caller may pass: arm joints, a non-arm joint of the
\* robot, and a name the robot does not have
JointNames == jnt_to_id \cup {"bogus"}
\* cfgs.ARM.MAX_TORQUES
_max_torques == <<1, 1>>
\* cfgs.ARM.HOME_POSITION
_home_position == <<0, 1>>
\* cfgs.HAS_EETOOL
HAS_EETOOL == TRUE
\* cfgs.ARM.MAX_JOINT_ERROR and cfgs.ARM.MAX_JOINT_VEL_ERROR
MAX_JOINT_ERROR == 0
MAX_JOINT_VEL_ERROR == 0

Zeros(n) == [i \in 1..n |-> 0]

JointVectors == [1..arm_dof -> Vals]
\* solutions the inverse-kinematics solver may return (cut to arm_dof elements)
IKSolutions == {Zeros(arm_dof), _home_position}
\* end-effector positions the engine may report, and positions a caller may ask for
EEPositions == {<<0, 0, 0>>, <<1, 1, 0>>}
\* the end-effector positions the engine reports
CurPositions == {<<0, 0, 0>>, <<1, 1, 0>>}
\* displacements of move_ee_xyz: along one axis, so that their norm is an
\* integer, forwards up to MaxDelta and one step backwards
Deltas == {<<d, 0, 0>> : d \in -1..MaxDelta}
\* interpolation steps of move_ee_xyz, the non-positive ones included
Steps == -1..MaxStep
\* whole-arm goals: every goal of the right length, and one goal of each other
\* length (the code reads only the length of those)
Goals == JointVectors \cup {Zeros(n) : n \in 0..MaxLen}
\* single-joint goals: a float, here a one-element list
Scalars == {<<v>> : v \in Vals}
\* (goal, joint_name) pairs of a single-joint call: every value for an arm
\* joint, one value for the other names
Singles == {<<q, j>> \in Scalars \X JointNames :
              j \in arm_jnt_names_set \/ q = <<0>>}

\* list.index(joint_name) on arm_jnt_names; callers check membership first
index(joint_name) == CHOOSE i \in 1..arm_dof : arm_jnt_names[i] = joint_name

VARIABLES
    _in_torque_mode,        \* self._in_torque_mode: one flag per arm joint
    was_enabled,            \* history: the joints enable_torque_control has switched
    driven,                 \* history: the joints in torque mode that set_jpos or
                            \* set_jvel has sent a motor command to since
                            \* enable_torque_control last switched them
    _step_sim_mode,         \* self._step_sim_mode
    eetool_step_sim_mode,   \* self.eetool._step_sim_mode
    STEP_SIM_MODE,          \* pb_util.STEP_SIM_MODE
    RENDER,                 \* pb_util.RENDER
    realTimeSimulation,     \* the engine's own realtime flag (setRealTimeSimulation)
    th_pc,                  \* position of the step_rt_simulation thread
    jpos,                   \* joint positions held by the engine, per arm joint
    op,                     \* the operation the caller invoked last, with its arguments
    cmds,                   \* simulator calls made by that operation, in order
    ret,                    \* its outcome: "running", "True", "False" or the exception raised
    pc,                     \* where the caller's thread is
    frame,                  \* the operation whose body called set_jpos
    idx,                    \* loop index of the per-joint reset loop in set_jpos
    waiter,                 \* locals of set_jpos / wait_to_reach_jnt_goal while they loop
    waypoints,              \* move_ee_xyz: the Cartesian plan
    way_jnt_positions,      \* move_ee_xyz: the joint targets of the waypoints
    way_i,                  \* move_ee_xyz: number of waypoints already commanded
    success,                \* move_ee_xyz: its local variable success
    wp_rets,                \* history: what each set_jpos call of move_ee_xyz returned,
                            \* and whether its wait had run out of time by then
    stepped                 \* history: simulation steps since a hard reset was invoked

simvars == <<_step_sim_mode, eetool_step_sim_mode, STEP_SIM_MODE, RENDER,
             realTimeSimulation>>
modevars == <<_in_torque_mode, was_enabled, driven>>
physvars == <<jpos>>
movevars == <<waypoints, way_jnt_positions, way_i, success, wp_rets>>
callvars == <<op, cmds, ret, pc, frame, idx, waiter>>
vars == <<modevars, simvars, th_pc, physvars, callvars, movevars, stepped>>

\* ------------------------------------------------------------ simulator API
\* op.flag holds the boolean argument that is not wait: ignore_physics of
\* set_jpos and go_home, on of realtime_simulation
Op(name, joint, goal, wait, flag, eef_step) ==
    [name |-> name, joint |-> joint, goal |-> goal, wait |-> wait,
     flag |-> flag, eef_step |-> eef_step]
NoOp == Op("__init__", None, <<>>, FALSE, FALSE, 0)

Call(api, mode, joints, tgt, force) ==
    [api |-> api, mode |-> mode, joints |-> joints, tgt |-> tgt, force |-> force]

MotorApis == {"setJointMotorControlArray", "setJointMotorControl2"}
\* calls that drive or overwrite a joint
ActuationApis == MotorApis \cup {"resetJointState"}

Actuations(log) == SelectSeq(log, LAMBDA c : c.api \in ActuationApis)
OfMode(log, mode) == SelectSeq(log, LAMBDA c : c.api \in MotorApis /\ c.mode = mode)

\* kind is "jpos" or "jvel" while wait_to_reach_jnt_goal polls that reader, and
\* "reset" while set_jpos walks its reset loop over tgt_pos (goal)
NoWaiter == [goal |-> <<>>, joint |-> None, kind |-> "none", elapsed |-> 0]

\* variant of resetJointState: the first arm joint is reset whatever the name
resetJointState_first(q, jnt_name, value) == [q EXCEPT ![1] = value]

\* p.resetJointState(robot_id, jnt_to_id[jnt_name], targetValue, targetVelocity = 0)
resetJointState(q, jnt_name, value) == [q EXCEPT ![index(jnt_name)] = value]

\* get_jpos(joint_name): the engine's joint positions, a list for the whole
\* arm and a single value (here a one-element list) for a named joint
get_jpos(joint_name) ==
    IF joint_name = None THEN jpos ELSE <<jpos[index(joint_name)]>>
\* get_jvel(joint_name): the values the engine may report as joint velocities;
\* the model keeps no velocities, any value of the domain may be read
get_jvel(joint_name) ==
    IF joint_name = None THEN JointVectors ELSE Scalars

\* set_jpos(..., ignore_physics=True) and go_home(ignore_physics=True)
IsHardReset(o) == o.name \in {"set_jpos", "go_home"} /\ o.flag

\* ------------------------------------------------------------------- Init
\* load_pb(render), then SingleArmPybullet(cfgs, render, rt_simulation): the
\* constructor ends with realtime_simulation(rt_simulation) and clears the flags
Init ==
    /\ RENDER \in BOOLEAN
    /\ \E rt_simulation \in BOOLEAN :
          /\ _step_sim_mode = ~rt_simulation
          /\ eetool_step_sim_mode = (IF HAS_EETOOL THEN ~rt_simulation ELSE TRUE)
          /\ STEP_SIM_MODE = ~rt_simulation
          /\ realTimeSimulation = (RENDER /\ rt_simulation)
    /\ th_pc = IF RENDER THEN "none" ELSE "test"
    /\ _in_torque_mode = [i \in 1..arm_dof |-> FALSE]
    /\ was_enabled = [i \in 1..arm_dof |-> FALSE]
    /\ driven = [i \in 1..arm_dof |-> FALSE]
    /\ jpos = Zeros(arm_dof)
    /\ op = NoOp
    /\ cmds = <<>>
    /\ ret = "None"
    /\ pc = "idle"
    /\ frame = "none"
    /\ idx = 0
    /\ waiter = NoWaiter
    /\ waypoints = <<>>
    /\ way_jnt_positions = <<>>
    /\ way_i = 0
    /\ success = "False"
    /\ wp_rets = <<>>
    /\ stepped = "none"

\* the state after pb_util.load_pb(render), before an arm is constructed:
\* STEP_SIM_MODE has its module default, True; with a GUI the engine's
\* realtime simulation is switched on, without one the stepping thread runs
InitPb ==
    /\ RENDER \in BOOLEAN
    /\ STEP_SIM_MODE = TRUE
    /\ realTimeSimulation = RENDER
    /\ th_pc = IF RENDER THEN "none" ELSE "test"
    /\ _step_sim_mode = TRUE
    /\ eetool_step_sim_mode = TRUE
    /\ _in_torque_mode = [i \in 1..arm_dof |-> FALSE]
    /\ was_enabled = [i \in 1..arm_dof |-> FALSE]
    /\ driven = [i \in 1..arm_dof |-> FALSE]
    /\ jpos = Zeros(arm_dof)
    /\ op = NoOp
    /\ cmds = <<>>
    /\ ret = "None"
    /\ pc = "idle"
    /\ frame = "none"
    /\ idx = 0
    /\ waiter = NoWaiter
    /\ waypoints = <<>>
    /\ way_jnt_positions = <<>>
    /\ way_i = 0
    /\ success = "False"
    /\ wp_rets = <<>>
    /\ stepped = "none"

\* ------------------------------------------------------- simulation stepping
\* p.stepSimulation: the engine advances the joints; which values they take is
\* the engine's business
stepSimulation ==
    /\ jpos' \in JointVectors
    /\ stepped' = IF ~IsHardReset(op) THEN stepped
                  ELSE IF pc = "idle" THEN "after"
                  ELSE IF stepped = "none" THEN "during" ELSE stepped
    /\ UNCHANGED <<modevars, simvars, callvars, movevars>>

\* variant of step_rt_simulation_test: the flag is not read
step_rt_simulation_test_always ==
    /\ th_pc = "test"
    /\ th_pc' = "step"
    /\ UNCHANGED <<modevars, simvars, physvars, callvars, movevars, stepped>>

\* step_rt_simulation, `if not STEP_SIM_MODE`: the thread reads the flag
step_rt_simulation_test ==
    /\ th_pc = "test"
    /\ th_pc' = IF ~STEP_SIM_MODE THEN "step" ELSE "test"
    /\ UNCHANGED <<modevars, simvars, physvars, callvars, movevars, stepped>>

\* step_rt_simulation, p.stepSimulation and time.sleep
step_rt_simulation_step ==
    /\ th_pc = "step"
    /\ th_pc' = "test"
    /\ stepSimulation

\* the engine's own stepping after p.setRealTimeSimulation(1)
RealTimeSimulationStep ==
    /\ realTimeSimulation
    /\ UNCHANGED th_pc
    /\ stepSimulation

\* ------------------------------------------------------- operation plumbing
\* success and wp_rets belong to a running move_ee_xyz; any other operation
\* starts without them
Hist(fr) ==
    IF fr = "move_ee_xyz"
    THEN UNCHANGED <<success, wp_rets>>
    ELSE success' = "False" /\ wp_rets' = <<>>

\* the caller invokes operation o
Starts(o) ==
    /\ op' = o
    /\ stepped' = "none"
    /\ waypoints' = <<>>
    /\ way_jnt_positions' = <<>>
    /\ way_i' = 0

\* variant of assign_success: a failed waypoint keeps the result False
assign_success_sticky(r) ==
    IF wp_rets # <<>> /\ success = "False" THEN "False" ELSE r

\* move_ee_xyz, `success = self.set_jpos(jnt_poss)`: the latest result
\* replaces the earlier one
assign_success(r) == r

\* the running call returns r to frame fr, after e unsuccessful polls: to the
\* waypoint loop of move_ee_xyz, which assigns it to success, or to the caller
Returns(r, fr, e) ==
    /\ waiter' = NoWaiter
    /\ idx' = 0
    /\ IF fr = "move_ee_xyz"
       THEN /\ pc' = "mv_loop"
            /\ frame' = fr
            /\ ret' = "running"
            /\ success' = assign_success(r)
            /\ wp_rets' = Append(wp_rets, [ret |-> r, expired |-> e >= Timeout])
       ELSE /\ pc' = "idle"
            /\ frame' = "none"
            /\ ret' = r
            /\ Hist(fr)

\* the running call raises err, which no frame catches
Raises(err, fr) ==
    /\ waiter' = NoWaiter
    /\ idx' = 0
    /\ pc' = "idle"
    /\ frame' = "none"
    /\ ret' = err
    /\ Hist(fr)

\* the running call enters wait_to_reach_jnt_goal(goal, get_func, joint_name)
EntersWait(fr, goal, joint_name, kind) ==
    /\ ret' = "running"
    /\ pc' = "wait"
    /\ frame' = fr
    /\ idx' = 0
    /\ waiter' = [goal |-> goal, joint |-> joint_name, kind |-> kind, elapsed |-> 0]
    /\ Hist(fr)

\* an operation that the caller invokes and that ends (returns r or raises r)
\* in the same step, having made the simulator calls of log
Ends(o, log, r) ==
    /\ Starts(o)
    /\ cmds' = log
    /\ Returns(r, "none", 0)

\* variant of set_step_sim: STEP_SIM_MODE is written only with a GUI
set_step_sim_rendered(step_mode) ==
    /\ STEP_SIM_MODE' = IF RENDER THEN step_mode ELSE STEP_SIM_MODE
    /\ realTimeSimulation' = IF RENDER THEN ~step_mode ELSE realTimeSimulation
    /\ UNCHANGED RENDER

\* set_step_sim(step_mode)
set_step_sim(step_mode) ==
    /\ STEP_SIM_MODE' = step_mode
    /\ realTimeSimulation' = IF RENDER THEN ~step_mode ELSE realTimeSimulation
    /\ UNCHANGED RENDER

\* pb_util.set_step_sim(step_mode) called on its own, not through an arm
pb_set_step_sim(step_mode) ==
    /\ pc = "idle"
    /\ set_step_sim(step_mode)
    /\ Ends(Op("set_step_sim", None, <<>>, FALSE, step_mode, 0), <<>>, "None")
    /\ UNCHANGED <<_step_sim_mode, eetool_step_sim_mode, modevars, th_pc, physvars>>

\* ------------------------------------------------------ load_urdf, load_sdf
\* scaling factors a caller may pass
Scalings == {-1, 0, 1, 2}

\* variant of load_raises: a scaling of zero is let through
load_raises_negative(scaling) == IF scaling < 0 THEN "ValueError" ELSE "ok"

\* `if scaling <= 0: raise ValueError`
load_raises(scaling) == IF scaling <= 0 THEN "ValueError" ELSE "ok"

\* p.setGravity(0, 0, GRAVITY_CONST)
setGravity_call == Call("setGravity", "-", <<>>, <<>>, <<>>)

\* what p.loadURDF / p.loadSDF return: a body id, or a negative number for a
\* file that cannot be loaded
BodyIds == {"body_id", "negative"}

\* load_urdf(filename, base_pos, base_ori, scaling)
load_urdf(scaling) ==
    /\ pc = "idle"
    /\ LET o == Op("load_urdf", None, <<scaling>>, FALSE, FALSE, 0) IN
       IF load_raises(scaling) # "ok"
       THEN Ends(o, <<>>, load_raises(scaling))
       ELSE \E body_id \in BodyIds :
              Ends(o, <<Call("loadURDF", "-", <<>>, <<scaling>>, <<>>),
                        setGravity_call>>, body_id)
    /\ UNCHANGED <<modevars, simvars, th_pc, physvars>>

\* load_sdf(filename, scaling)
load_sdf(scaling) ==
    /\ pc = "idle"
    /\ LET o == Op("load_sdf", None, <<scaling>>, FALSE, FALSE, 0) IN
       IF load_raises(scaling) # "ok"
       THEN Ends(o, <<>>, load_raises(scaling))
       ELSE \E body_id \in BodyIds :
              Ends(o, <<Call("loadSDF", "-", <<>>, <<scaling>>, <<>>),
                        setGravity_call>>, body_id)
    /\ UNCHANGED <<modevars, simvars, th_pc, physvars>>

\* variant of realtime_simulation: the torque flags are initialised again, as
\* the constructor does after its own call
realtime_simulation_resets(on) ==
    /\ pc = "idle"
    /\ _step_sim_mode' = ~on
    /\ eetool_step_sim_mode' = IF HAS_EETOOL THEN ~on ELSE eetool_step_sim_mode
    /\ set_step_sim(~on)
    /\ Ends(Op("realtime_simulation", None, <<>>, FALSE, on, 0), <<>>, "None")
    /\ _in_torque_mode' = [i \in 1..arm_dof |-> FALSE]
    /\ UNCHANGED <<was_enabled, driven, th_pc, physvars>>

\* realtime_simulation(on)
realtime_simulation(on) ==
    /\ pc = "idle"
    /\ _step_sim_mode' = ~on
    /\ eetool_step_sim_mode' = IF HAS_EETOOL THEN ~on ELSE eetool_step_sim_mode
    /\ set_step_sim(~on)
    /\ Ends(Op("realtime_simulation", None, <<>>, FALSE, on, 0), <<>>, "None")
    /\ UNCHANGED <<modevars, th_pc, physvars>>

\* ------------------------------------------------------------- torque mode
\* variant of _is_in_torque_mode: any() in place of all() for the whole arm
_is_in_torque_mode_any(joint_name) ==
    IF joint_name = None
    THEN \E i \in 1..arm_dof : _in_torque_mode[i]
    ELSE _in_torque_mode[index(joint_name)]

\* _is_in_torque_mode(joint_name); arm_jnt_names.index raises ValueError for a
\* name that is not an arm joint, which callers see before the result
_is_in_torque_mode(joint_name) ==
    IF joint_name = None
    THEN \A i \in 1..arm_dof : _in_torque_mode[i]
    ELSE _in_torque_mode[index(joint_name)]

\* the command enable_torque_control sends: velocity control, zero target
\* velocity, zero force
enable_torque_control_cmd(joint_name) ==
    IF joint_name = None
    THEN Call("setJointMotorControlArray", "VELOCITY_CONTROL", arm_jnt_names,
              Zeros(arm_dof), Zeros(arm_dof))
    ELSE Call("setJointMotorControl2", "VELOCITY_CONTROL", <<joint_name>>,
              <<0>>, <<0>>)

\* the joints a call addresses: all arm joints, or the named arm joint
Addressed(joint_name) ==
    IF joint_name = None THEN 1..arm_dof
    ELSE {i \in 1..arm_dof : arm_jnt_names[i] = joint_name}

\* a position-control or velocity-control command of set_jpos or set_jvel
\* reaches the addressed joint(s): those in torque mode are now driven by it
Drives(joint_name) ==
    driven' = [i \in 1..arm_dof |->
                 IF i \in Addressed(joint_name) THEN _in_torque_mode[i]
                 ELSE driven[i]]

\* the zero-force command of enable_torque_control reaches the addressed
\* joint(s), or their flag is cleared: no command drives them any more
Releases(joint_name) ==
    driven' = [i \in 1..arm_dof |-> driven[i] /\ i \notin Addressed(joint_name)]

\* variant of enable_torque_flags: every flag is set whatever the joint
enable_torque_flags_all(joint_name) == [i \in 1..arm_dof |-> TRUE]

\* self._in_torque_mode after enable_torque_control(joint_name):
\* `[True] * self.arm_dof`, or `self._in_torque_mode[arm_jnt_id] = True`
enable_torque_flags(joint_name) ==
    IF joint_name = None
    THEN [i \in 1..arm_dof |-> TRUE]
    ELSE [_in_torque_mode EXCEPT ![index(joint_name)] = TRUE]

\* enable_torque_control(joint_name)
enable_torque_control(joint_name) ==
    /\ pc = "idle"
    /\ LET o == Op("enable_torque_control", joint_name, <<>>, FALSE, FALSE, 0) IN
       IF joint_name # None /\ joint_name \notin jnt_to_id
       THEN \* self.jnt_to_id[joint_name]
            /\ Ends(o, <<>>, "KeyError")
            /\ UNCHANGED modevars
       ELSE IF joint_name # None /\ joint_name \notin arm_jnt_names_set
       THEN \* the command is sent, then arm_jnt_names.index(joint_name) raises
            /\ Ends(o, <<enable_torque_control_cmd(joint_name)>>, "ValueError")
            /\ UNCHANGED modevars
       ELSE /\ Ends(o, <<enable_torque_control_cmd(joint_name)>>, "None")
            /\ _in_torque_mode' = enable_torque_flags(joint_name)
            /\ was_enabled' = [i \in 1..arm_dof |->
                                 was_enabled[i] \/ i \in Addressed(joint_name)]
            /\ Releases(joint_name)
    /\ UNCHANGED <<simvars, th_pc, physvars>>

\* ------------------------------------------------------------ set_jvel
\* the exception set_jvel raises for its arguments, "ok" when it raises none
set_jvel_raises(velocity, joint_name) ==
    IF joint_name = None
    THEN IF Len(velocity) # arm_dof THEN "ValueError" ELSE "ok"
    ELSE IF joint_name \notin arm_jnt_names_set THEN "TypeError" ELSE "ok"

\* variant of set_jvel_cmd: the command carries no force
set_jvel_cmd_limp(velocity, joint_name) ==
    IF joint_name = None
    THEN Call("setJointMotorControlArray", "VELOCITY_CONTROL", arm_jnt_names,
              velocity, Zeros(arm_dof))
    ELSE Call("setJointMotorControl2", "VELOCITY_CONTROL", <<joint_name>>,
              velocity, <<0>>)

\* the velocity-control command of set_jvel, bounded by the maximum torques
set_jvel_cmd(velocity, joint_name) ==
    IF joint_name = None
    THEN Call("setJointMotorControlArray", "VELOCITY_CONTROL", arm_jnt_names,
              velocity, _max_torques)
    ELSE Call("setJointMotorControl2", "VELOCITY_CONTROL", <<joint_name>>,
              velocity, <<_max_torques[index(joint_name)]>>)

\* what set_jvel returns when wait is not requested: success stays False
\* unless `not self._step_sim_mode`
set_jvel_nowait == IF ~_step_sim_mode THEN "True" ELSE "False"

\* set_jvel(velocity, joint_name, wait)
set_jvel(velocity, joint_name, wait) ==
    /\ pc = "idle"
    /\ LET o == Op("set_jvel", joint_name, velocity, wait, FALSE, 0)
           err == set_jvel_raises(velocity, joint_name)
       IN  IF err # "ok"
           THEN /\ Ends(o, <<>>, err)
                /\ UNCHANGED driven
           ELSE IF ~_step_sim_mode /\ wait
           THEN /\ Starts(o)
                /\ cmds' = <<set_jvel_cmd(velocity, joint_name)>>
                /\ EntersWait("none", velocity, joint_name, "jvel")
                /\ Drives(joint_name)
           ELSE /\ Ends(o, <<set_jvel_cmd(velocity, joint_name)>>, set_jvel_nowait)
                /\ Drives(joint_name)
    /\ UNCHANGED <<_in_torque_mode, was_enabled, simvars, th_pc, physvars>>

\* variant of disable_torque_flags: the whole-arm call forgets the flags
disable_torque_flags_stale(joint_name) ==
    IF joint_name = None
    THEN _in_torque_mode
    ELSE [_in_torque_mode EXCEPT ![index(joint_name)] = FALSE]

\* self._in_torque_mode after disable_torque_control(joint_name):
\* `[False] * self.arm_dof`, or `self._in_torque_mode[arm_jnt_id] = False`
disable_torque_flags(joint_name) ==
    IF joint_name = None
    THEN [i \in 1..arm_dof |-> FALSE]
    ELSE [_in_torque_mode EXCEPT ![index(joint_name)] = FALSE]

\* variant of disable_torque_control: the flags are cleared before set_jvel
\* is called, and stay cleared when it raises
disable_torque_control_clears_first(joint_name) ==
    /\ pc = "idle"
    /\ LET o == Op("disable_torque_control", joint_name, <<>>, FALSE, FALSE, 0)
           velocity == IF joint_name = None THEN Zeros(arm_dof) ELSE <<0>>
           err == set_jvel_raises(velocity, joint_name)
       IN  IF err # "ok"
           THEN /\ Ends(o, <<>>, err)
                /\ _in_torque_mode' = [i \in 1..arm_dof |-> FALSE]
                /\ Releases(None)
           ELSE /\ Ends(o, <<set_jvel_cmd(velocity, joint_name)>>, "None")
                /\ _in_torque_mode' = disable_torque_flags(joint_name)
                /\ Releases(joint_name)
    /\ UNCHANGED <<was_enabled, simvars, th_pc, physvars>>

\* disable_torque_control(joint_name): set_jvel with zero velocity, then the
\* flag(s) are cleared; an exception of set_jvel leaves the flags alone
disable_torque_control(joint_name) ==
    /\ pc = "idle"
    /\ LET o == Op("disable_torque_control", joint_name, <<>>, FALSE, FALSE, 0)
           velocity == IF joint_name = None THEN Zeros(arm_dof) ELSE <<0>>
           err == set_jvel_raises(velocity, joint_name)
       IN  IF err # "ok"
           THEN /\ Ends(o, <<>>, err)
                /\ UNCHANGED <<_in_torque_mode, driven>>
           ELSE /\ Ends(o, <<set_jvel_cmd(velocity, joint_name)>>, "None")
                /\ _in_torque_mode' = disable_torque_flags(joint_name)
                /\ Releases(joint_name)
    /\ UNCHANGED <<was_enabled, simvars, th_pc, physvars>>

\* ------------------------------------------------------------ set_jtorq
\* variant of set_jtorq_raises: the torque-mode check left out
set_jtorq_raises_nocheck(torque, joint_name) ==
    IF joint_name # None /\ joint_name \notin arm_jnt_names_set THEN "ValueError"
    ELSE IF joint_name = None /\ Len(torque) # arm_dof THEN "ValueError"
    ELSE "ok"

\* variant of set_jtorq_raises: the goal is validated before the mode
set_jtorq_raises_lenfirst(torque, joint_name) ==
    IF joint_name # None /\ joint_name \notin arm_jnt_names_set THEN "ValueError"
    ELSE IF joint_name = None /\ Len(torque) # arm_dof THEN "ValueError"
    ELSE IF ~_is_in_torque_mode(joint_name) THEN "RuntimeError"
    ELSE "ok"

\* the exception set_jtorq raises, "ok" when it raises none: the torque-mode
\* check comes first (its arm_jnt_names.index raises ValueError for a name
\* outside the arm), then the length of a whole-arm goal
set_jtorq_raises(torque, joint_name) ==
    IF joint_name # None /\ joint_name \notin arm_jnt_names_set THEN "ValueError"
    ELSE IF ~_is_in_torque_mode(joint_name) THEN "RuntimeError"
    ELSE IF joint_name = None /\ Len(torque) # arm_dof THEN "ValueError"
    ELSE "ok"

set_jtorq_cmd(torque, joint_name) ==
    IF joint_name = None
    THEN Call("setJointMotorControlArray", "TORQUE_CONTROL", arm_jnt_names,
              <<>>, torque)
    ELSE Call("setJointMotorControl2", "TORQUE_CONTROL", <<joint_name>>,
              <<>>, torque)

\* set_jtorq(torque, joint_name)
set_jtorq(torque, joint_name) ==
    /\ pc = "idle"
    /\ LET o == Op("set_jtorq", joint_name, torque, FALSE, FALSE, 0)
           err == set_jtorq_raises(torque, joint_name)
       IN  IF err # "ok"
           THEN Ends(o, <<>>, err)
           ELSE Ends(o, <<set_jtorq_cmd(torque, joint_name)>>, "True")
    /\ UNCHANGED <<modevars, simvars, th_pc, physvars>>

\* ------------------------------------------------------------ set_jpos
\* variant of set_jpos_raises: the length of a whole-arm goal is not checked
set_jpos_raises_nolen(position, joint_name) ==
    IF joint_name = None THEN "ok"
    ELSE IF joint_name \notin arm_jnt_names_set THEN "TypeError" ELSE "ok"

\* the exception set_jpos raises for its arguments, "ok" when it raises none
set_jpos_raises(position, joint_name) ==
    IF joint_name = None
    THEN IF Len(position) # arm_dof THEN "ValueError" ELSE "ok"
    ELSE IF joint_name \notin arm_jnt_names_set THEN "TypeError" ELSE "ok"

\* the position-control command of set_jpos, bounded by the maximum torques
set_jpos_cmd(position, joint_name) ==
    IF joint_name = None
    THEN Call("setJointMotorControlArray", "POSITION_CONTROL", arm_jnt_names,
              position, _max_torques)
    ELSE Call("setJointMotorControl2", "POSITION_CONTROL", <<joint_name>>,
              position, <<_max_torques[index(joint_name)]>>)

reset_joint_state_call(jnt_name, value) ==
    Call("resetJointState", "-", <<jnt_name>>, <<value>>, <<0>>)

\* variant of set_jpos_waits: the step mode is not looked at
set_jpos_waits_stepping(wait, ignore_physics) == wait /\ ~ignore_physics

\* variant of set_jpos_waits: the wait is never entered
set_jpos_waits_never(wait, ignore_physics) == FALSE

\* variant of set_jpos_waits: the wait flag and the step mode are not looked at
set_jpos_waits_always(wait, ignore_physics) == ~ignore_physics

\* `if not self._step_sim_mode and wait and not ignore_physics`
set_jpos_waits(wait, ignore_physics) ==
    ~_step_sim_mode /\ wait /\ ~ignore_physics

\* the body of set_jpos(position, joint_name, wait, ignore_physics), called in
\* frame fr after the simulator calls of log
set_jpos_body(log, fr, position, joint_name, wait, ignore_physics) ==
    LET err == set_jpos_raises(position, joint_name) IN
    IF err # "ok"
    THEN /\ cmds' = log
         /\ Raises(err, fr)
         /\ UNCHANGED <<physvars, driven>>
    ELSE IF ignore_physics /\ joint_name = None
    THEN \* set_jvel([0.] * arm_dof), then the reset loop over arm_jnt_names
         /\ cmds' = Append(log, set_jvel_cmd(Zeros(arm_dof), None))
         /\ ret' = "running"
         /\ pc' = "reset"
         /\ frame' = fr
         /\ idx' = 1
         /\ waiter' = [goal |-> position, joint |-> None, kind |-> "reset",
                       elapsed |-> 0]
         /\ Hist(fr)
         /\ Drives(joint_name)
         /\ UNCHANGED physvars
    ELSE IF ignore_physics
    THEN \* set_jvel(0., joint_name); reset_joint_state(joint_name, tgt_pos)
         /\ cmds' = log \o <<set_jvel_cmd(<<0>>, joint_name),
                              reset_joint_state_call(joint_name, position[1])>>
         /\ jpos' = resetJointState(jpos, joint_name, position[1])
         /\ Returns("True", fr, 0)
         /\ Drives(joint_name)
    ELSE /\ cmds' = Append(log, set_jpos_cmd(position, joint_name))
         /\ Drives(joint_name)
         /\ UNCHANGED physvars
         /\ IF set_jpos_waits(wait, ignore_physics)
            THEN EntersWait(fr, position, joint_name, "jpos")
            ELSE Returns("False", fr, 0)

\* variant of enumerate_arm_jnt_names: the arm joints are walked backwards
enumerate_arm_jnt_names_reversed(i) == arm_jnt_names[arm_dof + 1 - i]

\* the joint name of iteration i of `enumerate(self.arm_jnt_names)`
enumerate_arm_jnt_names(i) == arm_jnt_names[i]

\* set_jpos, one iteration of `for idx, jnt in enumerate(self.arm_jnt_names)`;
\* after the last one success = True is returned (the wait is skipped)
set_jpos_reset ==
    /\ pc = "reset"
    /\ LET jnt == enumerate_arm_jnt_names(idx) IN
         /\ cmds' = Append(cmds, reset_joint_state_call(jnt, waiter.goal[idx]))
         /\ jpos' = resetJointState(jpos, jnt, waiter.goal[idx])
    /\ IF idx = arm_dof
       THEN Returns("True", frame, 0)
       ELSE /\ idx' = idx + 1
            /\ UNCHANGED <<ret, pc, frame, waiter, success, wp_rets>>
    /\ UNCHANGED <<modevars, simvars, th_pc, op, waypoints,
                   way_jnt_positions, way_i, stepped>>

\* set_jpos(position, joint_name, wait, ignore_physics)
set_jpos(position, joint_name, wait, ignore_physics) ==
    /\ pc = "idle"
    /\ Starts(Op("set_jpos", joint_name, position, wait, ignore_physics, 0))
    /\ set_jpos_body(<<>>, "none", position, joint_name, wait, ignore_physics)
    /\ UNCHANGED <<_in_torque_mode, was_enabled, simvars, th_pc>>

\* go_home(ignore_physics)
go_home(ignore_physics) ==
    /\ pc = "idle"
    /\ Starts(Op("go_home", None, _home_position, TRUE, ignore_physics, 0))
    /\ set_jpos_body(<<>>, "none", _home_position, None, TRUE, ignore_physics)
    /\ UNCHANGED <<_in_torque_mode, was_enabled, simvars, th_pc>>

\* ------------------------------------------------- wait_to_reach_jnt_goal
Abs(x) == IF x < 0 THEN -x ELSE x

\* |current - target| <= max_error, elementwise
reach_jnt_goal(goal, cur, max_error) ==
    \A i \in 1..Len(goal) : Abs(cur[i] - goal[i]) <= max_error

\* the outcome of one poll: "True" when the goal is reached, "False" when the
\* timeout has expired, "sleep" otherwise
wait_poll(goal, cur, max_error, elapsed) ==
    IF reach_jnt_goal(goal, cur, max_error) THEN "True"
    ELSE IF elapsed >= Timeout THEN "False"
    ELSE "sleep"

\* variant of wait_result: a wait that timed out is raised as an error
wait_result_raises(r) == IF r = "False" THEN "RuntimeError" ELSE r

\* set_jpos / set_jvel, `success = wait_to_reach_jnt_goal(...)` and
\* `return success`: the outcome of the wait is returned as it is
wait_result(r) == r

\* one iteration of the polling loop of wait_to_reach_jnt_goal
wait_to_reach_jnt_goal ==
    /\ pc = "wait"
    /\ \E cur \in (IF waiter.kind = "jpos" THEN {get_jpos(waiter.joint)}
                     ELSE get_jvel(waiter.joint)) :
         LET max_error == IF waiter.kind = "jpos" THEN MAX_JOINT_ERROR
                          ELSE MAX_JOINT_VEL_ERROR
             r == wait_poll(waiter.goal, cur, max_error, waiter.elapsed)
         IN  IF r = "sleep"
             THEN /\ waiter' = [waiter EXCEPT !.elapsed = @ + 1]
                  /\ UNCHANGED <<ret, pc, frame, idx, success, wp_rets>>
             ELSE Returns(wait_result(r), frame, waiter.elapsed)
    /\ UNCHANGED <<modevars, simvars, th_pc, physvars, op, cmds,
                   waypoints, way_jnt_positions, way_i, stepped>>

\* ------------------------------------------------ end-effector operations
\* get_ee_pose(): the engine's call, with the position it reports
get_ee_pose_call(pos) == Call("getLinkState", "-", <<>>, pos, <<>>)
\* compute_ik(pos, ori): the solver's call; its solution, cut to arm_dof
\* elements, is whatever the engine finds
compute_ik_call(pos) == Call("calculateInverseKinematics", "-", <<>>, pos, <<>>)

\* set_ee_pose(pos, ori, wait); pos = <<>> stands for pos=None
set_ee_pose(pos, wait) ==
    /\ pc = "idle"
    /\ Starts(Op("set_ee_pose", None, pos, wait, FALSE, 0))
    /\ \E cur_pos \in CurPositions, jnt_pos \in IKSolutions :
          LET log == IF pos = <<>>
                     THEN <<get_ee_pose_call(cur_pos), compute_ik_call(cur_pos)>>
                     ELSE <<compute_ik_call(pos)>>
          IN  set_jpos_body(log, "none", jnt_pos, None, wait, FALSE)
    /\ UNCHANGED <<_in_torque_mode, was_enabled, simvars, th_pc>>

Sign(x) == IF x < 0 THEN -1 ELSE IF x > 0 THEN 1 ELSE 0
\* Euclidean norm of a vector along one axis
Norm(v) == Abs(v[1]) + Abs(v[2]) + Abs(v[3])

\* linear_interpolate_path(start_pos, delta_xyz, interval), interval > 0:
\* ceil(norm / interval) points, a multiple of the interval apart, of which
\* the last is the exact endpoint; the origin alone for a zero displacement
linear_interpolate_path(start_pos, delta_xyz, interval) ==
    LET num == (Norm(delta_xyz) + interval - 1) \div interval IN
    IF Norm(delta_xyz) = 0 THEN <<start_pos>>
    ELSE [k \in 1..num |->
            IF k = num
            THEN [c \in 1..3 |-> start_pos[c] + delta_xyz[c]]
            ELSE [c \in 1..3 |-> start_pos[c] + k * interval * Sign(delta_xyz[c])]]

\* what linear_interpolate_path raises for its interval, "ok" when nothing
linear_interpolate_path_raises(interval) ==
    IF interval <= 0 THEN "ValueError" ELSE "ok"

\* variant of move_ee_xyz_interval: a non-positive step is replaced
move_ee_xyz_interval_default(eef_step) == IF eef_step <= 0 THEN 1 ELSE eef_step

\* move_ee_xyz passes eef_step to linear_interpolate_path as it got it
move_ee_xyz_interval(eef_step) == eef_step

\* variant of move_ee_xyz_plan: the displacement is taken from the origin of
\* the frame, not from the current position
move_ee_xyz_plan_from_zero(cur_pos, delta_xyz, eef_step) ==
    linear_interpolate_path(<<0, 0, 0>>, delta_xyz,
                            move_ee_xyz_interval(eef_step))

\* variant of move_ee_xyz_plan: the current position is a waypoint as well
move_ee_xyz_plan_with_start(cur_pos, delta_xyz, eef_step) ==
    <<cur_pos>> \o linear_interpolate_path(cur_pos, delta_xyz,
                                           move_ee_xyz_interval(eef_step))

\* move_ee_xyz, `waypoints = linear_interpolate_path(cur_pos, delta_xyz, eef_step)`
move_ee_xyz_plan(cur_pos, delta_xyz, eef_step) ==
    linear_interpolate_path(cur_pos, delta_xyz, move_ee_xyz_interval(eef_step))

\* variant of move_ee_xyz_allowed: no mode check
move_ee_xyz_allowed_always == TRUE
\* move_ee_xyz, `if self._step_sim_mode: raise AssertionError`
move_ee_xyz_allowed == ~_step_sim_mode
\* variant of move_ee_xyz_wait: the waypoints are commanded without waiting
move_ee_xyz_nowait == FALSE
\* move_ee_xyz calls set_jpos(jnt_poss) with wait left at its default, True
move_ee_xyz_wait == TRUE

\* move_ee_xyz(delta_xyz, eef_step) up to its waypoint loop: the mode check,
\* the pose read, the plan and one compute_ik per waypoint
move_ee_xyz(delta_xyz, eef_step) ==
    /\ pc = "idle"
    /\ LET o == Op("move_ee_xyz", None, delta_xyz, TRUE, FALSE, eef_step) IN
       IF ~move_ee_xyz_allowed
       THEN Ends(o, <<>>, "AssertionError")
       ELSE \E cur_pos \in CurPositions :
              LET err == linear_interpolate_path_raises(
                             move_ee_xyz_interval(eef_step))
                  plan == move_ee_xyz_plan(cur_pos, delta_xyz, eef_step)
              IN
              IF err # "ok"
              THEN Ends(o, <<get_ee_pose_call(cur_pos)>>, err)
              ELSE
              \E sols \in [1..Len(plan) -> IKSolutions] :
                 /\ op' = o
                 /\ stepped' = "none"
                 /\ cmds' = <<get_ee_pose_call(cur_pos)>> \o
                             [i \in 1..Len(plan) |-> compute_ik_call(plan[i])]
                 /\ waypoints' = plan
                 /\ way_jnt_positions' = sols
                 /\ way_i' = 0
                 /\ success' = "False"
                 /\ wp_rets' = <<>>
                 /\ ret' = "running"
                 /\ pc' = "mv_loop"
                 /\ frame' = "move_ee_xyz"
                 /\ idx' = 0
                 /\ waiter' = NoWaiter
    /\ UNCHANGED <<modevars, simvars, th_pc, physvars>>

\* move_ee_xyz, `for jnt_poss in way_jnt_positions: success = self.set_jpos(jnt_poss)`
\* and `return success`
move_ee_xyz_loop ==
    /\ pc = "mv_loop"
    /\ IF way_i = Len(way_jnt_positions)
       THEN /\ pc' = "idle"
            /\ frame' = "none"
            /\ ret' = success
            /\ UNCHANGED <<cmds, idx, waiter, way_i, success, wp_rets, physvars,
                           driven>>
       ELSE /\ way_i' = way_i + 1
            /\ set_jpos_body(cmds, "move_ee_xyz", way_jnt_positions[way_i + 1],
                             None, move_ee_xyz_wait, FALSE)
    /\ UNCHANGED <<_in_torque_mode, was_enabled, simvars, th_pc, op, waypoints,
                   way_jnt_positions, stepped>>

\* ------------------------------------------------------------------- Next
\* the simulation advancing on its own
NextSim ==
    \/ step_rt_simulation_test
    \/ step_rt_simulation_step
    \/ RealTimeSimulationStep

\* the loops of the running operation
NextLoops ==
    \/ set_jpos_reset
    \/ wait_to_reach_jnt_goal
    \/ move_ee_xyz_loop

\* the mode transitions and the torque command
NextTorque ==
    \/ \E j \in JointNames \cup {None} : enable_torque_control(j)
    \/ \E j \in JointNames \cup {None} : disable_torque_control(j)
    \/ \E t \in Goals : set_jtorq(t, None)
    \/ \E s \in Singles : set_jtorq(s[1], s[2])

\* the joint-space commands
NextJoint ==
    \/ \E on \in BOOLEAN : realtime_simulation(on)
    \/ \E v \in Goals, w \in BOOLEAN : set_jvel(v, None, w)
    \/ \E s \in Singles, w \in BOOLEAN : set_jvel(s[1], s[2], w)
    \/ \E q \in Goals, w, i \in BOOLEAN : set_jpos(q, None, w, i)
    \/ \E s \in Singles, w, i \in BOOLEAN : set_jpos(s[1], s[2], w, i)
    \/ \E i \in BOOLEAN : go_home(i)

\* the end-effector commands
NextEE ==
    \/ \E on \in BOOLEAN : realtime_simulation(on)
    \/ \E x \in EEPositions \cup {<<>>}, w \in BOOLEAN : set_ee_pose(x, w)
    \/ \E d \in Deltas, e \in Steps : move_ee_xyz(d, e)

\* one call of each position, velocity and end-effector command for every
\* joint identifier, with the goal that sends the joints home to zero
NextZero ==
    \/ \E on \in BOOLEAN : realtime_simulation(on)
    \/ \E j \in JointNames \cup {None}, w \in BOOLEAN :
          set_jvel(IF j = None THEN Zeros(arm_dof) ELSE <<0>>, j, w)
    \/ \E j \in JointNames \cup {None}, w, i \in BOOLEAN :
          set_jpos(IF j = None THEN Zeros(arm_dof) ELSE <<0>>, j, w, i)
    \/ \E i \in BOOLEAN : go_home(i)
    \/ \E w \in BOOLEAN : set_ee_pose(<<>>, w)
    \/ \E d \in {<<MaxDelta, 0, 0>>} : move_ee_xyz(d, 1)

\* the calls of pb_util made without an arm
NextPb ==
    \/ \E m \in BOOLEAN : pb_set_step_sim(m)
    \/ \E sc \in Scalings : load_urdf(sc)
    \/ \E sc \in Scalings : load_sdf(sc)

Next == NextSim \/ NextLoops \/ NextTorque \/ NextJoint \/ NextEE \/ NextPb

\* the whole program
Spec == Init /\ [][Next]_vars

\* the control-mode guard: every mode transition and torque command, between
\* motion commands, while the engine stands still
NextGuard == NextTorque \/ NextZero \/ NextLoops
SpecGuard == Init /\ [][NextGuard]_vars

\* pb_util on its own, from load_pb on: mode switches and loads while the
\* simulation advances
NextPbSim == NextSim \/ NextPb
SpecSim == InitPb /\ [][NextPbSim]_vars

\* the joint-space commands while the simulation advances
NextJointSim == NextSim \/ NextJoint \/ set_jpos_reset \/ wait_to_reach_jnt_goal
SpecJoint == Init /\ [][NextJointSim]_vars
\* the same, the caller's thread being scheduled: a loop it runs (the polling
\* of the wait, the per-joint resets) takes its next iteration eventually
SpecJointFair ==
    SpecJoint /\ WF_vars(wait_to_reach_jnt_goal) /\ WF_vars(set_jpos_reset)

\* the end-effector commands while the simulation advances
NextEESim == NextSim \/ NextEE \/ wait_to_reach_jnt_goal \/ move_ee_xyz_loop
SpecMove == Init /\ [][NextEESim]_vars

\* ================================================================ properties
AllTrue == [i \in 1..arm_dof |-> TRUE]
AllFalse == [i \in 1..arm_dof |-> FALSE]
TorqueCmds == OfMode(cmds, "TORQUE_CONTROL")

\* C1: a torque command is issued only by set_jtorq and only if every joint it
\* addresses (all arm joints for a whole-arm call, the named arm joint
\* otherwise) has its flag set; a set_jtorq that addresses a joint whose flag
\* is not set raises the mode violation (RuntimeError) and makes no simulator
\* call at all.
C1_TorqueOnlyInTorqueMode ==
    /\ \A k \in 1..Len(cmds) :
          cmds[k].mode = "TORQUE_CONTROL" => op.name = "set_jtorq"
    /\ op.name = "set_jtorq" =>
          /\ TorqueCmds # <<>> =>
                /\ Addressed(op.joint) # {}
                /\ \A i \in Addressed(op.joint) : _in_torque_mode[i]
          /\ (\E i \in Addressed(op.joint) : ~_in_torque_mode[i]) =>
                ret = "RuntimeError" /\ cmds = <<>>

\* a single-joint torque command went out to j1 while j2 is not in torque mode
C1_Witness ==
    /\ op.name = "set_jtorq" /\ op.joint = "j1" /\ ret = "True"
    /\ Len(cmds) = 1 /\ cmds[1].mode = "TORQUE_CONTROL" /\ cmds[1].joints = <<"j1">>
    /\ _in_torque_mode = <<TRUE, FALSE>>

C2_Inv ==
    \* no flag is set before enable_torque_control addressed the joint, and a
    \* torque command to such a joint is refused
    /\ \A i \in 1..arm_dof : ~was_enabled[i] => ~_in_torque_mode[i]
    /\ (op.name = "set_jtorq" /\ \E i \in Addressed(op.joint) : ~was_enabled[i])
          => ret = "RuntimeError"
    \* after enable_torque_control the addressed flags are set
    /\ (op.name = "enable_torque_control" /\ ret = "None")
          => \A i \in Addressed(op.joint) : _in_torque_mode[i]
    \* after disable_torque_control they are clear again
    /\ (op.name = "disable_torque_control" /\ ret = "None")
          => \A i \in Addressed(op.joint) : ~_in_torque_mode[i]

\* a flag changes only in a call that addresses its joint: it is set by
\* enable_torque_control and cleared by disable_torque_control
C2_Flips ==
    [][\A i \in 1..arm_dof :
         _in_torque_mode'[i] # _in_torque_mode[i] =>
            /\ op'.name = IF _in_torque_mode'[i] THEN "enable_torque_control"
                          ELSE "disable_torque_control"
            /\ i \in Addressed(op'.joint)]_vars

\* once all joints were enabled and then disabled by a whole-arm call, the
\* next torque command on the arm raises the mode violation
C2_RoundTrip ==
    [][(/\ op.name = "disable_torque_control" /\ op.joint = None /\ ret = "None"
        /\ was_enabled = AllTrue
        /\ op'.name = "set_jtorq" /\ Addressed(op'.joint) # {})
       => (ret' = "RuntimeError" /\ cmds' = <<>>)]_vars

\* C2: for every arm joint the torque check fails from construction until
\* enable_torque_control addresses the joint, succeeds from then on until
\* disable_torque_control addresses it, and fails again afterwards; after
\* enabling and then disabling all joints a torque command is a mode violation.
C2_EnableDisableCycle == []C2_Inv /\ C2_Flips /\ C2_RoundTrip

\* a whole-arm torque command refused after every joint was enabled and
\* disabled again
C2_Witness ==
    /\ op.name = "set_jtorq" /\ op.joint = None /\ Len(op.goal) = arm_dof
    /\ ret = "RuntimeError"
    /\ was_enabled = AllTrue /\ _in_torque_mode = AllFalse

\* C3: a whole-arm set_jtorq with a goal of the right length is permitted
\* exactly when every arm joint's flag is set and is refused with the mode
\* violation as soon as one flag is clear; a single-joint set_jtorq on an arm
\* joint is permitted exactly when that joint's flag is set, whatever the
\* flags of the other joints.
C3_WholeArmIsConjunction ==
    op.name = "set_jtorq" =>
       /\ (op.joint = None /\ Len(op.goal) = arm_dof) =>
             /\ (ret = "True" /\ Len(TorqueCmds) = 1)
                   <=> (\A i \in 1..arm_dof : _in_torque_mode[i])
             /\ ret = "RuntimeError"
                   <=> (\E i \in 1..arm_dof : ~_in_torque_mode[i])
       /\ op.joint \in arm_jnt_names_set =>
             /\ (ret = "True" /\ Len(TorqueCmds) = 1)
                   <=> (\A i \in Addressed(op.joint) : _in_torque_mode[i])
             /\ ret = "RuntimeError"
                   <=> (\E i \in Addressed(op.joint) : ~_in_torque_mode[i])

\* a whole-arm torque command refused because j2 alone was disabled again
C3_Witness ==
    /\ op.name = "set_jtorq" /\ op.joint = None /\ Len(op.goal) = arm_dof
    /\ ret = "RuntimeError" /\ cmds = <<>>
    /\ was_enabled = AllTrue /\ _in_torque_mode = <<TRUE, FALSE>>

JointOps == {"set_jpos", "set_jvel", "set_jtorq", "enable_torque_control",
             "disable_torque_control"}

\* C5: an operation given a joint identifier outside the arm's joint-name set
\* raises without having issued an actuation command, also for a non-arm
\* joint that the robot's joint-id map knows.
C5_UnknownJointNoActuation ==
    (op.name \in JointOps /\ op.joint # None /\ op.joint \notin arm_jnt_names_set)
       => /\ ret \in {"TypeError", "ValueError", "KeyError"}
          /\ Actuations(cmds) = <<>>

\* C4: a whole-arm set_jpos (with or without ignore_physics) or set_jvel whose
\* goal has not arm_dof elements raises ValueError and makes no simulator
\* call: no actuation command, no joint reset.
C4_WrongLengthRejected ==
    (op.name \in {"set_jpos", "set_jvel"} /\ op.joint = None
       /\ Len(op.goal) # arm_dof)
       => (pc = "idle" /\ ret = "ValueError" /\ cmds = <<>>)

\* a hard reset asked for with one element too many was rejected
C4_Witness ==
    /\ op.name = "set_jpos" /\ op.joint = None /\ op.flag
    /\ Len(op.goal) = arm_dof + 1
    /\ ret = "ValueError" /\ cmds = <<>>

\* a whole-arm set_jpos(ignore_physics=True) with a goal of arm_dof elements
\* has returned
HardResetDone ==
    /\ op.name = "set_jpos" /\ op.flag /\ op.joint = None
    /\ Len(op.goal) = arm_dof
    /\ pc = "idle"

C7_MoveRefusedInStepMode ==
    (op.name = "move_ee_xyz" /\ _step_sim_mode)
       => (pc = "idle" /\ ret = "AssertionError" /\ cmds = <<>>)

C7_Witness ==
    /\ op.name = "move_ee_xyz" /\ _step_sim_mode /\ op.eef_step > 0
    /\ ret = "AssertionError" /\ cmds = <<>>

PositionCmds == OfMode(cmds, "POSITION_CONTROL")

\* C8: during move_ee_xyz the position commands go out in plan order, the
\* command for waypoint k+1 only after the set_jpos call for waypoint k has
\* returned, which it does only once its wait found the goal reached or ran
\* out of time; at most one command is outstanding, and only while the
\* caller waits.
C8_WaypointsInOrder ==
    op.name = "move_ee_xyz" =>
       /\ Len(PositionCmds) <= Len(way_jnt_positions)
       /\ \A k \in 1..Len(PositionCmds) :
             PositionCmds[k].tgt = way_jnt_positions[k]
       /\ Len(PositionCmds) = Len(wp_rets) + (IF pc = "wait" THEN 1 ELSE 0)
       /\ \A k \in 1..Len(wp_rets) :
             wp_rets[k].ret = "True" \/ wp_rets[k].expired

\* the second waypoint, with another joint target than the first, is being
\* waited for after the wait for the first one timed out
C8_Witness ==
    /\ op.name = "move_ee_xyz" /\ pc = "wait"
    /\ Len(PositionCmds) = 2
    /\ wp_rets = <<[ret |-> "False", expired |-> TRUE]>>
    /\ way_jnt_positions[1] # way_jnt_positions[2]

\* C9: move_ee_xyz returns what the set_jpos call for the last waypoint
\* returned, after having commanded every waypoint, whatever the earlier
\* calls returned.
C9_LastWaypointDecides ==
    (op.name = "move_ee_xyz" /\ pc = "idle" /\ ret \in {"True", "False"})
       => /\ Len(PositionCmds) = Len(way_jnt_positions)
          /\ Len(wp_rets) = Len(way_jnt_positions)
          /\ ret = IF wp_rets = <<>> THEN "False"
                   ELSE wp_rets[Len(wp_rets)].ret

\* the first waypoint timed out, the second was reached, the move returned True
C9_Witness ==
    /\ op.name = "move_ee_xyz" /\ pc = "idle" /\ ret = "True"
    /\ Len(wp_rets) = 2
    /\ wp_rets[1].ret = "False" /\ wp_rets[2].ret = "True"

\* a set_jvel with a valid goal and wait not requested
VelNoWait ==
    /\ op.name = "set_jvel" /\ ~op.wait
    /\ \/ op.joint = None /\ Len(op.goal) = arm_dof
       \/ op.joint \in arm_jnt_names_set

\* C10: such a call issues its velocity command and returns True,
\* in manual-step mode as well as in realtime mode.
C10_NoWaitAlwaysTrue ==
    VelNoWait => (Len(OfMode(cmds, "VELOCITY_CONTROL")) = 1 /\ ret = "True")

\* the caller is blocked in the wait of a set_jpos or set_jvel call
InWait == pc = "wait" /\ frame = "none" /\ op.name \in {"set_jpos", "set_jvel"}

\* the actuation command such a call issues
WaitedCmd ==
    [mode |-> IF op.name = "set_jpos" THEN "POSITION_CONTROL"
              ELSE "VELOCITY_CONTROL",
     tgt |-> op.goal]

C11_Issued ==
    InWait =>
       /\ Len(cmds) = 1
       /\ cmds[1].mode = WaitedCmd.mode /\ cmds[1].tgt = WaitedCmd.tgt

C11_Returned ==
    [][InWait =>
         /\ cmds' = cmds
         /\ pc' # "wait" =>
               /\ pc' = "idle" /\ ret' \in {"True", "False"}
               /\ ret' = "False" => waiter.elapsed >= Timeout]_vars

\* C11: while set_jpos or set_jvel waits, its position or velocity command
\* has already been issued; the wait ends with True or, once the timeout has
\* expired, with False, never with an exception, and the command log is the
\* same after the wait as before it.
C11_TimeoutIsNotAnError == []C11_Issued /\ C11_Returned

\* a waiting set_jvel in realtime mode came back False with its command issued
C11_Witness ==
    /\ op.name = "set_jvel" /\ op.wait /\ ~_step_sim_mode
    /\ pc = "idle" /\ ret = "False"
    /\ Len(cmds) = 1 /\ cmds[1].mode = "VELOCITY_CONTROL"

\* a valid set_jpos call that has to wait: realtime mode, wait requested,
\* ignore_physics not set
WaitingSetJpos(o) ==
    /\ o.name = "set_jpos" /\ o.wait /\ ~o.flag
    /\ \/ o.joint = None /\ Len(o.goal) = arm_dof
       \/ o.joint \in arm_jnt_names_set

\* the joint(s) the running set_jpos tracks are within the maximum error of
\* its goal
WithinError ==
    LET cur == IF op.joint = None THEN jpos ELSE <<jpos[index(op.joint)]>> IN
    \A i \in 1..Len(op.goal) : Abs(cur[i] - op.goal[i]) <= MAX_JOINT_ERROR

C12_Enters ==
    [][(pc = "idle" /\ op' # op /\ WaitingSetJpos(op') /\ ~_step_sim_mode)
          => (pc' = "wait" /\ waiter'.elapsed = 0)]_vars

C12_Polls ==
    [][(pc = "wait" /\ frame = "none" /\ op.name = "set_jpos"
          /\ <<pc, waiter>>' # <<pc, waiter>>)
          => IF WithinError THEN pc' = "idle" /\ ret' = "True"
             ELSE IF waiter.elapsed < Timeout
                  THEN pc' = "wait" /\ waiter'.elapsed = waiter.elapsed + 1
                  ELSE pc' = "idle" /\ ret' = "False"]_vars

\* C12: in realtime mode a set_jpos with wait and without ignore_physics
\* samples the joints before it returns; a sample within the maximum error
\* of the goal ends the call with True, the first sample included; a sample
\* outside it lets the call go on while the timeout has not expired and
\* ends it with False once it has.
C12_TrueIffReachedInTime == C12_Enters /\ C12_Polls

\* a waiting set_jpos returned True with the joints at a goal other than
\* their initial position
C12_Witness ==
    /\ WaitingSetJpos(op) /\ op.joint = None /\ ~_step_sim_mode
    /\ pc = "idle" /\ ret = "True"
    /\ op.goal = <<1, 0>> /\ jpos = op.goal

C13_Blocked ==
    /\ pc \in {"idle", "wait", "reset"}
    /\ pc = "wait" =>
          /\ op.name \in {"set_jpos", "set_jvel", "go_home"}
          /\ op.wait /\ ~op.flag /\ ~_step_sim_mode
          /\ waiter.elapsed <= Timeout
    /\ pc = "reset" => op.name \in {"set_jpos", "go_home"} /\ op.flag

ModeCall(o, name) ==
    o.name = name /\ (o.joint = None \/ o.joint \in arm_jnt_names_set)

\* the names of the joints a call addresses, in the order of the command
AddressedNames(joint_name) ==
    IF joint_name = None THEN arm_jnt_names ELSE <<joint_name>>

\* disable_torque_control has sent one velocity-control command with zero
\* target velocity to the addressed joint(s) and cleared their flags
DisabledToVelocity ==
    /\ ret = "None"
    /\ Len(cmds) = 1
    /\ cmds[1].mode = "VELOCITY_CONTROL"
    /\ cmds[1].joints = AddressedNames(op.joint)
    /\ \A k \in 1..Len(cmds[1].tgt) : cmds[1].tgt[k] = 0
    /\ \A i \in Addressed(op.joint) : ~_in_torque_mode[i]

\* C14: disable_torque_control sends the addressed joint(s) a velocity-control
\* command with zero target velocity and zero force, and clears their flags.
C14_ZeroVelocityZeroForce ==
    ModeCall(op, "disable_torque_control") =>
       /\ DisabledToVelocity
       /\ \A k \in 1..Len(cmds[1].force) : cmds[1].force[k] = 0

\* C14 amended: disable_torque_control sends the addressed joint(s) a
\* velocity-control command with zero target velocity, its force bounded by
\* the joints' configured maximum torques, and clears their flags.
C14_ZeroVelocityMaxTorque ==
    ModeCall(op, "disable_torque_control") =>
       /\ DisabledToVelocity
       /\ cmds[1].force = IF op.joint = None THEN _max_torques
                          ELSE <<_max_torques[index(op.joint)]>>

\* j2 alone left torque mode, with j1 still in it
C14_Witness ==
    /\ op.name = "disable_torque_control" /\ op.joint = "j2" /\ ret = "None"
    /\ was_enabled = AllTrue /\ _in_torque_mode = <<TRUE, FALSE>>
    /\ cmds[1].force = <<_max_torques[2]>>

\* C15: enable_torque_control issues one velocity-control command with zero
\* target velocity to the joint it is given and sets that joint's flag, the
\* other flags staying as they were; without a joint it does so for all arm
\* joints.  disable_torque_control clears the flag of the joint it is
\* given and no other.
C15_OnlyTheNamedFlag ==
    [][/\ ModeCall(op', "enable_torque_control") =>
             /\ ret' = "None"
             /\ Len(cmds') = 1
             /\ cmds'[1].mode = "VELOCITY_CONTROL"
             /\ cmds'[1].joints = AddressedNames(op'.joint)
             /\ \A k \in 1..Len(cmds'[1].tgt) : cmds'[1].tgt[k] = 0
             /\ \A i \in 1..arm_dof :
                   _in_torque_mode'[i] =
                      (_in_torque_mode[i] \/ i \in Addressed(op'.joint))
       /\ ModeCall(op', "disable_torque_control") =>
             \A i \in 1..arm_dof :
                _in_torque_mode'[i] =
                   (_in_torque_mode[i] /\ i \notin Addressed(op'.joint))]_vars

\* j2 was enabled while j1, enabled and disabled before, stayed out of
\* torque mode
C15_Witness ==
    /\ op.name = "enable_torque_control" /\ op.joint = "j2" /\ ret = "None"
    /\ was_enabled = AllTrue /\ _in_torque_mode = <<FALSE, TRUE>>

\* C16: a step in which a flag changes is a call of enable_torque_control or
\* disable_torque_control; the motion commands and realtime_simulation leave
\* the flags as they are, whether they return True or False or raise.
C16_FlagsOnlyByModeCalls ==
    [][op'.name \notin {"enable_torque_control", "disable_torque_control"}
          => _in_torque_mode' = _in_torque_mode]_vars

\* with j1 alone in torque mode a move_ee_xyz has timed out
C16_Witness ==
    /\ op.name = "move_ee_xyz" /\ pc = "idle" /\ ret = "False"
    /\ _in_torque_mode = <<TRUE, FALSE>>

\* C17: a whole-arm set_jtorq with a goal of the wrong length raises the mode
\* violation (RuntimeError) when not all joints are in torque mode and the
\* invalid-goal error (ValueError) only when they all are; no simulator call
\* is made in either case.
C17_ModeBeforeGoal ==
    (op.name = "set_jtorq" /\ op.joint = None /\ Len(op.goal) # arm_dof)
       => /\ cmds = <<>>
          /\ ret = IF _in_torque_mode = AllTrue THEN "ValueError"
                   ELSE "RuntimeError"

\* a goal one element too long was refused for the mode, j2 not being in
\* torque mode
C17_Witness ==
    /\ op.name = "set_jtorq" /\ op.joint = None
    /\ Len(op.goal) = arm_dof + 1
    /\ _in_torque_mode = <<TRUE, FALSE>>
    /\ ret = "RuntimeError" /\ cmds = <<>>

VecAdd(a, b) == [c \in 1..3 |-> a[c] + b[c]]
VecSub(a, b) == [c \in 1..3 |-> a[c] - b[c]]
\* the inverse-kinematics calls of the running operation, in order
IKCalls == SelectSeq(cmds, LAMBDA c : c.api = "calculateInverseKinematics")
\* move_ee_xyz has read the pose and planned with a positive step
PlanMade ==
    /\ op.name = "move_ee_xyz" /\ op.eef_step > 0 /\ ret # "AssertionError"
    /\ cmds # <<>> /\ cmds[1].api = "getLinkState"
\* the end-effector position move_ee_xyz has read
Origin == cmds[1].tgt

\* C18: the plan move_ee_xyz makes with a positive step, and solves by
\* inverse kinematics waypoint by waypoint, is not empty, moves away from
\* the position read without passing the endpoint, and ends exactly at that
\* position plus the displacement, also for a displacement shorter than the
\* step.
C18_PlanEndsAtEndpoint ==
    PlanMade =>
       /\ waypoints # <<>>
       /\ waypoints[Len(waypoints)] = VecAdd(Origin, op.goal)
       /\ \A k \in 1..Len(waypoints) :
             Norm(VecSub(waypoints[k], Origin)) <= Norm(op.goal)
       /\ \A k \in 1..(Len(waypoints) - 1) :
             Norm(VecSub(waypoints[k], Origin))
                < Norm(VecSub(waypoints[k + 1], Origin))
       /\ Len(IKCalls) = Len(waypoints)
       /\ \A k \in 1..Len(waypoints) : IKCalls[k].tgt = waypoints[k]

\* from <<1, 1, 0>> a displacement of 1 with a step of 2 gave the endpoint alone
C18_Witness ==
    /\ PlanMade /\ op.goal = <<1, 0, 0>> /\ op.eef_step = 2
    /\ Origin = <<1, 1, 0>>
    /\ waypoints = << <<2, 1, 0>> >>

\* C19: with a zero displacement and a positive step the plan is the position
\* read and nothing else; move_ee_xyz solves it once and, when it has
\* returned, has issued exactly one position command, for that solution.
C19_ZeroDisplacement ==
    (PlanMade /\ op.goal = <<0, 0, 0>>) =>
       /\ waypoints = <<Origin>>
       /\ Len(IKCalls) = 1 /\ IKCalls[1].tgt = Origin
       /\ Len(way_jnt_positions) = 1
       /\ Len(PositionCmds) <= 1
       /\ pc = "idle" =>
             /\ ret \in {"True", "False"}
             /\ Len(PositionCmds) = 1
             /\ PositionCmds[1].tgt = way_jnt_positions[1]

\* a move by zero from <<1, 1, 0>> has returned True after one command
C19_Witness ==
    /\ PlanMade /\ op.goal = <<0, 0, 0>> /\ Origin = <<1, 1, 0>>
    /\ pc = "idle" /\ ret = "True"
    /\ Len(PositionCmds) = 1

\* C20: move_ee_xyz with a step that is zero or negative raises (ValueError
\* for the step in realtime mode, the mode's AssertionError in manual-step
\* mode) without an inverse-kinematics call, an actuation command or a
\* joint reset.
C20_NonPositiveStepRejected ==
    (op.name = "move_ee_xyz" /\ op.eef_step <= 0) =>
       /\ pc = "idle"
       /\ ret = IF _step_sim_mode THEN "AssertionError" ELSE "ValueError"
       /\ Actuations(cmds) = <<>>
       /\ IKCalls = <<>>
       /\ waypoints = <<>>

\* a step of zero was refused in realtime mode after the pose was read
C20_Witness ==
    /\ op.name = "move_ee_xyz" /\ op.eef_step = 0 /\ ~_step_sim_mode
    /\ ret = "ValueError"
    /\ Len(cmds) = 1 /\ cmds[1].api = "getLinkState"

\* a load_urdf or load_sdf call with a scaling factor that is not positive
BadLoad(o) == o.name \in {"load_urdf", "load_sdf"} /\ o.goal[1] <= 0

C21_Refused ==
    BadLoad(op) => (pc = "idle" /\ ret = "ValueError" /\ cmds = <<>>)

C21_Untouched ==
    [][(op' # op /\ BadLoad(op')) =>
          UNCHANGED <<jpos, simvars, th_pc, modevars>>]_vars

\* C21: load_urdf and load_sdf with a scaling factor of zero or less raise
\* ValueError having made no simulator call, neither the load nor the
\* setGravity that follows it, and leave what the simulator holds as it was.
C21_BadScalingRejected == []C21_Refused /\ C21_Untouched

\* load_sdf with a scaling of zero was refused
C21_Witness ==
    /\ op.name = "load_sdf" /\ op.goal = <<0>>
    /\ ret = "ValueError" /\ cmds = <<>>

\* a set_jpos or go_home call with ignore_physics=True whose arguments are
\* accepted
IgnoresPhysics ==
    /\ op.name \in {"set_jpos", "go_home"}
    /\ op.flag
    /\ set_jpos_raises(op.goal, op.joint) = "ok"

\* the k-th simulator call hard-resets the (k-1)-th addressed joint to its goal
ResetsInOrder(k) ==
    /\ cmds[k].api = "resetJointState"
    /\ cmds[k].joints = <<AddressedNames(op.joint)[k - 1]>>
    /\ cmds[k].tgt = <<op.goal[k - 1]>>

\* C22: with ignore_physics=True, set_jpos first issues the zero-velocity
\* velocity-control command to the addressed joint(s) and only afterwards
\* hard-resets them, one reset per addressed joint in the order of
\* arm_jnt_names; it issues no position-control command and never enters the
\* convergence wait.
C22_ZeroVelocityThenResets ==
    IgnoresPhysics =>
        /\ pc # "wait"
        /\ PositionCmds = <<>>
        /\ Len(cmds) \in 1..(1 + Len(AddressedNames(op.joint)))
        /\ cmds[1].api \in MotorApis
        /\ cmds[1].mode = "VELOCITY_CONTROL"
        /\ cmds[1].joints = AddressedNames(op.joint)
        /\ \A i \in 1..Len(cmds[1].tgt) : cmds[1].tgt[i] = 0
        /\ \A k \in 2..Len(cmds) : ResetsInOrder(k)
        /\ pc = "idle" => /\ Len(cmds) = 1 + Len(AddressedNames(op.joint))
                          /\ ret = "True"

\* a whole-arm set_jpos with ignore_physics=True and wait=True has returned in
\* realtime mode after its velocity command and one reset per arm joint
C22_Witness ==
    /\ IgnoresPhysics /\ op.name = "set_jpos" /\ op.joint = None
    /\ op.wait /\ ~_step_sim_mode
    /\ pc = "idle" /\ Len(cmds) = 1 + arm_dof
    /\ op.goal[1] # op.goal[2]

\* C23: whenever set_jtorq issues a torque command to a joint, no set_jpos or
\* set_jvel command has been issued to that joint since it entered torque
\* mode: the most recent position- or velocity-control command it received is
\* the zero-velocity, zero-force command of enable_torque_control.
C23_TorqueOnlyOnReleasedJoints ==
    (op.name = "set_jtorq" /\ TorqueCmds # <<>>) =>
        \A i \in Addressed(op.joint) : ~driven[i]

\* a set_jpos or go_home call without ignore_physics whose arguments are
\* accepted
ObeysPhysics ==
    /\ op.name \in {"set_jpos", "go_home"}
    /\ ~op.flag
    /\ set_jpos_raises(op.goal, op.joint) = "ok"

\* C24: set_jpos without ignore_physics enters the convergence wait only when
\* the arm is in realtime mode and wait is True; in manual-step mode, or with
\* wait=False, it issues the position command, never waits, and returns False.
C24_WaitsOnlyInRealtimeWithWait ==
    ObeysPhysics =>
        /\ pc = "wait" => (~_step_sim_mode /\ op.wait)
        /\ (_step_sim_mode \/ ~op.wait) =>
              /\ pc = "idle"
              /\ ret = "False"
              /\ Len(cmds) = 1
              /\ cmds[1].api \in MotorApis
              /\ cmds[1].mode = "POSITION_CONTROL"
              /\ cmds[1].joints = AddressedNames(op.joint)
              /\ cmds[1].tgt = op.goal

\* set_jpos with wait=True has returned False at once in manual-step mode,
\* its position command issued for a goal the joints are not at
C24_Witness ==
    /\ ObeysPhysics /\ op.name = "set_jpos" /\ op.wait /\ _step_sim_mode
    /\ pc = "idle" /\ ret = "False"
    /\ PositionCmds # <<>>
    /\ jpos # op.goal

\* C25: the arm's manual-step flag, its end-effector tool's manual-step flag
\* (when the arm has a tool) and the process-wide STEP_SIM_MODE flag are equal
\* in every state after construction of an arm whose mode is changed only
\* through realtime_simulation, and after realtime_simulation(on) all of them
\* equal (not on).
C25_StepFlagsAgree ==
    /\ _step_sim_mode = STEP_SIM_MODE
    /\ HAS_EETOOL => eetool_step_sim_mode = _step_sim_mode
    /\ op.name = "realtime_simulation" =>
          /\ _step_sim_mode = ~op.flag
          /\ STEP_SIM_MODE = ~op.flag
          /\ HAS_EETOOL => eetool_step_sim_mode = ~op.flag

\* realtime_simulation(False) has returned while the stepping thread, which
\* had read the flag in realtime mode, is still about to step
C25_Witness ==
    /\ op.name = "realtime_simulation" /\ ~op.flag
    /\ _step_sim_mode /\ STEP_SIM_MODE /\ eetool_step_sim_mode
    /\ th_pc = "step"

\* the stepping thread moves on in its loop
ThreadMoves == th_pc' # th_pc
\* the stepping thread calls p.stepSimulation
ThreadSteps == th_pc = "step" /\ th_pc' = "test"

\* the thread gets to p.stepSimulation only from a test that read
\* STEP_SIM_MODE as False, and without a GUI nothing else moves the joints
C26_StepsAfterFalse ==
    [][/\ th_pc' = "step" => (th_pc = "step" \/ (th_pc = "test" /\ ~STEP_SIM_MODE))
       /\ (jpos' # jpos /\ ~RENDER) => ThreadSteps]_vars

\* while STEP_SIM_MODE stays True a thread at its test stays there: only a
\* thread already past the test steps, once
C26_OneMoreStep ==
    [][/\ (STEP_SIM_MODE /\ STEP_SIM_MODE' /\ th_pc = "test") => th_pc' = "test"
       /\ th_pc = "step" => th_pc' \in {"step", "test"}]_vars

\* a move of the thread makes no simulator call of the caller's and writes no flag
C26_ThreadIsSilent ==
    [][ThreadMoves => UNCHANGED <<op, cmds, ret, modevars, simvars>>]_vars

\* C26: the background stepping thread advances the simulation only in loop
\* iterations in which it read STEP_SIM_MODE as False; under every
\* interleaving with the caller's thread it performs at most one further
\* stepSimulation call after set_step_sim(True) has returned, and it never
\* issues joint commands or writes the torque-mode flags.
C26_ThreadStepsOnlyInRealtime ==
    C26_StepsAfterFalse /\ C26_OneMoreStep /\ C26_ThreadIsSilent

\* set_step_sim(True) has returned while the thread, past its test, is about
\* to call p.stepSimulation once more
C26_Witness ==
    /\ op.name = "set_step_sim" /\ op.flag /\ pc = "idle"
    /\ STEP_SIM_MODE /\ ~RENDER
    /\ th_pc = "step"

\* the simulation advances on its own: the engine's realtime simulation is
\* on, or the stepping thread is about to step or will be on its next test
AdvancesOnItsOwn ==
    \/ realTimeSimulation
    \/ th_pc = "step"
    \/ th_pc = "test" /\ ~STEP_SIM_MODE

\* C27: in every state reachable after load_pb (with or without a GUI)
\* followed by any sequence of set_step_sim calls, the simulation advances on
\* its own (stepping thread stepping, or the engine's realtime simulation
\* switched on) if and only if STEP_SIM_MODE is False.
C27_AdvancesIffNotStepMode == AdvancesOnItsOwn <=> ~STEP_SIM_MODE

\* the exceptions the operations raise
Exceptions == {"TypeError", "ValueError", "KeyError", "RuntimeError"}

\* C28: an operation that fails leaves the torque-mode flags exactly as they
\* were: enable_torque_control or disable_torque_control called with a joint
\* identifier outside the arm's joint list raises without changing any
\* joint's flag, and a failing set_jtorq, set_jpos or set_jvel changes no flag.
C28_FailureKeepsFlags ==
    [][ret' \in Exceptions => _in_torque_mode' = _in_torque_mode]_vars

\* with both joints in torque mode, disable_torque_control was called for a
\* joint that is not an arm joint: it raised and both flags are still set
C28_Witness ==
    /\ op.name = "disable_torque_control"
    /\ op.joint # None /\ op.joint \notin arm_jnt_names_set
    /\ ret \in Exceptions
    /\ _in_torque_mode = AllTrue

====
